---- MODULE Spec2Model ----
(***************************************************************************)
(* A model of pyxlmapper: header inference (read_header, merge, infer),    *)
(* the position model of MapperNode (column_pos, abs_pos and their         *)
(* caches), verification (_verify_augment), row mapping (map_rows,         *)
(* dict_path_set) and the formatters (Flat, Typescript, Mapper).           *)
(*                                                                         *)
(* Nodes are numbered in the order they are created; node 1 is the root.   *)
(* parent[n] = 0 stands for `parent is None`.                              *)
(***************************************************************************)
EXTENDS Integers, Sequences, FiniteSets, TLC

VARIABLES
    config,             \* MapperNode.config, per node
    parent,             \* MapperNode.parent, per node (0 = None)
    children,           \* MapperNode.children, per node
    column_pos_cache,   \* cached_property column_pos, per node (NoCache = unset)
    abs_pos_cache,      \* cached_property abs_pos, per node (NoCache = unset)
    pc,                 \* where the program is
    err,                \* the exception that ended the run ("" = none)
    args,               \* the arguments of infer / map_rows
    header,             \* the state of the read_header generator
    infer_st,           \* the locals of infer
    src_col,            \* per node: the header column whose chain created it
    grid,               \* the worksheet cells read so far (cell -> raw value)
    verify_st,          \* the locals of _verify_augment and its tree iterator
    map_st,             \* the locals of map_rows
    output              \* what the last formatter returned

vars == <<config, parent, children, column_pos_cache, abs_pos_cache, pc, err,
          args, header, infer_st, src_col, grid, verify_st, map_st, output>>

tree_vars == <<config, parent, children>>
cache_vars == <<column_pos_cache, abs_pos_cache>>

-----------------------------------------------------------------------------
(* Bounds of the model *)

\* header rows read by infer
MaxHeight == 2
\* header columns a worksheet of the inference model has
MaxWidth == 4
\* nodes below the root of a hand-built mapper tree
MaxNodes == 3
\* data rows map_rows can find before the worksheet ends
MaxDataRows == 2
\* rows and columns of the header block of a given worksheet
MaxGridHeight == 3
MaxGridWidth == 2

-----------------------------------------------------------------------------
(* Cell values.  openpyxl gives None, str, int or float; a value is kept   *)
(* with its type so that normalize is not the identity.                    *)

None == [type |-> "NoneType", value |-> ""]
Str(s) == [type |-> "str", value |-> s]
IntVal(s) == [type |-> "int", value |-> s]
FloatVal(s) == [type |-> "float", value |-> s]

\* str.replace("\n", " ").strip() on the strings the worksheets hold
strip(s) ==
    CASE s = "USB-C Total " -> "USB-C Total"
      [] s = " a b\nc " -> "a b c"
      [] OTHER -> s

normalize(value) ==
    IF value.type = "str" THEN Str(strip(value.value))
    ELSE IF value.type = "float" THEN Str(value.value)
    ELSE value

\* class_name_from_str on the names of the model: a name made of one \w+
\* token that starts with an upper-case letter is left as it is
class_name_from_str(value) ==
    CASE value = "USB-C Total" -> "USBCTotal"
      [] value = "4-pin  RGB 12V" -> "FourPinRGB12V"
      [] OTHER -> value

camel_to_snake(value) ==
    CASE value = "Parent" -> "parent"
      [] value = "ChildOne" -> "child_one"
      [] value = "USBCTotal" -> "usbc_total"
      [] value = "FourPinRGB12V" -> "four_pin_rgb12_v"
      [] value = "Mapper" -> "mapper"
      [] OTHER -> value

-----------------------------------------------------------------------------
(* InternalConfig *)

InternalConfig(raw_name, offset, input_name, output_name, optional, skip, overrides) ==
    [raw_name |-> raw_name, offset |-> offset, input_name |-> input_name,
     output_name |-> output_name, optional |-> optional, skip |-> skip,
     overrides |-> overrides]

from_input_name(input_name) ==
    LET raw_name == class_name_from_str(input_name)
    IN  InternalConfig(raw_name, <<0, 0>>, input_name, camel_to_snake(raw_name),
                       FALSE, FALSE,
                       IF raw_name # input_name THEN {"input_name"} ELSE {})

\* a config equality that compares the offset as well
ConfigEqWithOffset(a, b) ==
    /\ a.raw_name = b.raw_name
    /\ a.offset = b.offset
    /\ a.input_name = b.input_name
    /\ a.output_name = b.output_name

\* InternalConfig.__eq__: offset, optional and skip are not compared
ConfigEq(a, b) ==
    /\ a.raw_name = b.raw_name
    /\ a.input_name = b.input_name
    /\ a.output_name = b.output_name

-----------------------------------------------------------------------------
(* MapperNode: structure *)

Nodes == 1..Len(config)
NoCache == <<>>

is_root(n) == parent[n] = 0
is_leaf(n) == Len(children[n]) = 0

\* MapperNode.last in the tree whose children lists are ch
RECURSIVE last_in(_, _)
last_in(ch, n) == IF Len(ch[n]) > 0 THEN last_in(ch, ch[n][Len(ch[n])]) ELSE n

last(n) == last_in(children, n)

RECURSIVE get_path(_)
get_path(n) == IF parent[n] = 0 THEN <<n>> ELSE Append(get_path(parent[n]), n)

Tail0(s) == IF Len(s) = 0 THEN s ELSE Tail(s)

\* the output_name keys of get_path()[1:]
str_path(n) == [i \in 1..Len(Tail0(get_path(n))) |-> config[Tail0(get_path(n))[i]].output_name]

RECURSIVE SeqConcat(_)
SeqConcat(ss) == IF Len(ss) = 0 THEN <<>> ELSE Head(ss) \o SeqConcat(Tail(ss))

RECURSIVE _get_leaves(_)
_get_leaves(n) ==
    IF is_leaf(n) THEN <<n>>
    ELSE SeqConcat([i \in 1..Len(children[n]) |-> _get_leaves(children[n][i])])

get_leaves(n) == _get_leaves(n)

\* MapperNode.__iter__ run to its end on a tree nobody changes: preorder
RECURSIVE Preorder(_)
Preorder(n) == <<n>> \o SeqConcat([i \in 1..Len(children[n]) |-> Preorder(children[n][i])])

Range(s) == {s[i] : i \in 1..Len(s)}


-----------------------------------------------------------------------------
(* MapperNode.__eq__ is the one @dataclass generates: it compares          *)
(* (config, parent, children) field by field, and so calls itself on the   *)
(* parents and on the children.  The answer is "T", "F", or "E" when the   *)
(* comparison comes back to a pair it is already comparing: Python then    *)
(* recurses until it raises RecursionError.                                *)

RECURSIVE NodeEq(_, _, _)
RECURSIVE ChildrenEq(_, _, _, _)

ParentEq(a, b, visiting) ==
    IF parent[a] = parent[b] THEN "T"
    ELSE IF parent[a] = 0 \/ parent[b] = 0 THEN "F"
    ELSE NodeEq(parent[a], parent[b], visiting)

ChildrenEq(xs, ys, i, visiting) ==
    IF Len(xs) # Len(ys) THEN "F"
    ELSE IF i > Len(xs) THEN "T"
    ELSE LET e == NodeEq(xs[i], ys[i], visiting)
         IN  IF e = "T" THEN ChildrenEq(xs, ys, i + 1, visiting) ELSE e

NodeEq(a, b, visiting) ==
    IF a = b THEN "T"
    ELSE IF <<a, b>> \in visiting THEN "E"
    ELSE IF ~ConfigEq(config[a], config[b]) THEN "F"
    ELSE LET p == ParentEq(a, b, visiting \cup {<<a, b>>})
         IN  IF p # "T" THEN p
             ELSE ChildrenEq(children[a], children[b], 1, visiting \cup {<<a, b>>})

\* the local index_of of column_pos, and the search of list.remove: the
\* 0-based index of the first element equal (==) to item, -1 when there is none
RECURSIVE index_of_from(_, _, _)
index_of_from(lst, item, i) ==
    IF i > Len(lst) THEN [raises |-> FALSE, idx |-> 0 - 1]
    ELSE LET e == NodeEq(lst[i], item, {})
         IN  IF e = "E" THEN [raises |-> TRUE, idx |-> 0 - 1]
             ELSE IF e = "T" THEN [raises |-> FALSE, idx |-> i - 1]
             ELSE index_of_from(lst, item, i + 1)

index_of(lst, item) == index_of_from(lst, item, 1)

\* list.remove(item): the list without its first element equal to item
list_remove(lst, item) ==
    LET pos == index_of(lst, item).idx
    IN  [i \in 1..(Len(lst) - 1) |-> IF i <= pos THEN lst[i] ELSE lst[i + 1]]

-----------------------------------------------------------------------------
(* MapperNode: positions.  column_pos and abs_pos are cached properties:   *)
(* a cached value is returned as it is, a missing one is computed from the *)
(* structure and from the (cached or computed) positions of other nodes.   *)
(* cc and ca are the two caches the evaluation starts from.                *)

\* the `sibling` of column_pos (0 = None)
sibling_of(n) ==
    LET pos == index_of(children[parent[n]], n).idx
    IN  IF pos > 0 THEN children[parent[n]][pos] ELSE 0

RECURSIVE column_pos_raises(_, _, _)
RECURSIVE abs_pos_raises(_, _, _)
RECURSIVE column_pos(_, _, _)
RECURSIVE abs_pos(_, _, _)

\* whether evaluating n.column_pos raises RecursionError
column_pos_raises(n, cc, ca) ==
    IF cc[n] # NoCache \/ parent[n] = 0 THEN FALSE
    ELSE \/ index_of(children[parent[n]], n).raises
         \/ /\ ~index_of(children[parent[n]], n).raises
            /\ IF sibling_of(n) # 0
                 THEN abs_pos_raises(last(sibling_of(n)), cc, ca)
                 ELSE abs_pos_raises(parent[n], cc, ca)

abs_pos_raises(n, cc, ca) ==
    IF ca[n] # NoCache THEN FALSE
    ELSE IF parent[n] = 0 THEN column_pos_raises(n, cc, ca)
    ELSE abs_pos_raises(parent[n], cc, ca) \/ column_pos_raises(n, cc, ca)

column_pos(n, cc, ca) ==
    IF cc[n] # NoCache THEN cc[n][1]
    ELSE IF parent[n] = 0 THEN config[n].offset[2] + 1
    ELSE LET sibling == sibling_of(n)
             previous_node_pos ==
                 IF sibling # 0 THEN abs_pos(last(sibling), cc, ca)[2]
                 ELSE abs_pos(parent[n], cc, ca)[2] - 1
         IN  previous_node_pos + config[n].offset[2] + 1

abs_pos(n, cc, ca) ==
    IF ca[n] # NoCache THEN ca[n]
    ELSE IF parent[n] = 0 THEN <<config[n].offset[1], column_pos(n, cc, ca)>>
    ELSE <<abs_pos(parent[n], cc, ca)[1] + config[n].offset[1] + 1,
           column_pos(n, cc, ca)>>

\* The nodes whose abs_pos (A) or column_pos (C) is computed, and so cached,
\* while n.abs_pos (..ByAbs) or n.column_pos (..ByCol) is evaluated.
RECURSIVE AByAbs(_, _, _)
RECURSIVE AByCol(_, _, _)
RECURSIVE CByAbs(_, _, _)
RECURSIVE CByCol(_, _, _)

AByCol(n, cc, ca) ==
    IF cc[n] # NoCache \/ parent[n] = 0 THEN {}
    ELSE IF sibling_of(n) # 0 THEN AByAbs(last(sibling_of(n)), cc, ca)
    ELSE AByAbs(parent[n], cc, ca)

AByAbs(n, cc, ca) ==
    IF ca[n] # NoCache THEN {}
    ELSE {n} \cup (IF parent[n] = 0 THEN {} ELSE AByAbs(parent[n], cc, ca))
             \cup AByCol(n, cc, ca)

CByCol(n, cc, ca) ==
    IF cc[n] # NoCache THEN {}
    ELSE IF parent[n] = 0 THEN {n}
    ELSE IF sibling_of(n) # 0 THEN {n} \cup CByAbs(last(sibling_of(n)), cc, ca)
    ELSE {n} \cup CByAbs(parent[n], cc, ca)

CByAbs(n, cc, ca) ==
    IF ca[n] # NoCache THEN {}
    ELSE (IF parent[n] = 0 THEN {} ELSE CByAbs(parent[n], cc, ca))
         \cup CByCol(n, cc, ca)

\* the caches after the nodes of seq had abs_pos (or column_pos) evaluated
AbsCacheAfter(ns, cc, ca) ==
    [m \in DOMAIN ca |->
        IF \E n \in ns : m \in AByAbs(n, cc, ca) THEN abs_pos(m, cc, ca) ELSE ca[m]]

ColCacheAfter(ns, cc, ca) ==
    [m \in DOMAIN cc |->
        IF \E n \in ns : m \in CByAbs(n, cc, ca) THEN <<column_pos(m, cc, ca)>> ELSE cc[m]]

AbsCacheAfterCol(ns, cc, ca) ==
    [m \in DOMAIN ca |->
        IF \E n \in ns : m \in AByCol(n, cc, ca) THEN abs_pos(m, cc, ca) ELSE ca[m]]

ColCacheAfterCol(ns, cc, ca) ==
    [m \in DOMAIN cc |->
        IF \E n \in ns : m \in CByCol(n, cc, ca) THEN <<column_pos(m, cc, ca)>> ELSE cc[m]]

\* clear_caches
clear_caches(cache, n) == [cache EXCEPT ![n] = NoCache]

\* what a node's position is when nothing is cached
fresh(cache) == [m \in DOMAIN cache |-> NoCache]


-----------------------------------------------------------------------------
(* Header inference: read_header, collapse_levels, merge, infer *)

\* what unwrap(cell).value can be in a header cell
HeaderValues == {None, Str("Parent"), Str("USB-C Total ")}

\* the (row, col) offsets infer is called with
RootOffsets == {<<0, 0>>, <<1, 2>>}

Auto == [auto |-> TRUE, n |-> 0]
Width(n) == [auto |-> FALSE, n |-> n]

RECURSIVE collapse_levels(_)
collapse_levels(levels) ==
    IF Len(levels) <= 1 THEN levels
    ELSE LET collapsed == collapse_levels(SubSeq(levels, 1, Len(levels) - 1))
             level == levels[Len(levels)]
         IN  IF collapsed[Len(collapsed)] # level THEN Append(collapsed, level)
             ELSE collapsed

\* the non-blank normalized values of one column, top to bottom
RECURSIVE NonBlank(_)
NonBlank(column) ==
    IF Len(column) = 0 THEN <<>>
    ELSE IF normalize(Head(column)) = None THEN NonBlank(Tail(column))
    ELSE <<normalize(Head(column)).value>> \o NonBlank(Tail(column))

\* the value of a worksheet cell when the worksheet is given: blank outside
\* the cells it holds
CellOf(pos) == IF pos \in DOMAIN grid THEN grid[pos] ELSE None

\* The cells read_header reads in one column.  When the worksheet is given
\* (grid) they are its cells; otherwise they are any values: the worksheet
\* has MaxWidth header columns and every cell to their right is blank.
ColumnsAt(col_index) ==
    IF DOMAIN grid # {}
      THEN {[level \in 1..args.height |->
                CellOf(<<level + args.offset[1], col_index + args.offset[2]>>)]}
    ELSE IF col_index > MaxWidth THEN {[level \in 1..args.height |-> None]}
    ELSE [1..args.height -> HeaderValues]

\* merge(reciever, other), other being the node at position i of the chain
\* of configs: where the chain is attached (at, from), the carry, or the
\* IndexError of children[-1] on a childless reciever
RECURSIVE merge(_, _, _)
merge(reciever, configs, i) ==
    IF is_root(reciever) /\ Len(children[reciever]) = 0
      THEN [raises |-> FALSE, attach |-> TRUE, at |-> reciever, from |-> i,
            divergent |-> FALSE, carry |-> 0]
    ELSE IF Len(children[reciever]) = 0
      THEN [raises |-> TRUE, attach |-> FALSE, at |-> reciever, from |-> i,
            divergent |-> FALSE, carry |-> 0]
    ELSE LET last_child == children[reciever][Len(children[reciever])]
         IN  IF ConfigEq(config[last_child], configs[i])
               THEN IF i < Len(configs) THEN merge(last_child, configs, i + 1)
                    ELSE [raises |-> FALSE, attach |-> FALSE, at |-> reciever,
                          from |-> i, divergent |-> TRUE, carry |-> 1]
               ELSE [raises |-> FALSE, attach |-> TRUE, at |-> reciever, from |-> i,
                     divergent |-> TRUE, carry |-> 0]

\* add_child(at, chain[from]) for a chain whose nodes are linked in a line:
\* the new nodes get the next free numbers
AttachedParent(at, k) ==
    parent \o [j \in 1..k |-> IF j = 1 THEN at ELSE Len(parent) + j - 1]

AttachedChildren(at, k) ==
    [children EXCEPT ![at] = Append(@, Len(children) + 1)]
        \o [j \in 1..k |-> IF j < k THEN <<Len(children) + j + 1>> ELSE <<>>]

InferInit ==
    /\ \E height \in 1..MaxHeight, offset \in RootOffsets,
          width \in {Auto} \cup {Width(n) : n \in 1..MaxWidth} :
            /\ args = [height |-> height, width |-> width, offset |-> offset,
                       name |-> "Mapper", start_at |-> 0]
            /\ config = <<InternalConfig("Mapper", offset, "", "", FALSE, FALSE,
                                         IF offset # <<0, 0>> THEN {"offset"} ELSE {})>>
    /\ parent = <<0>>
    /\ children = << <<>> >>
    /\ column_pos_cache = <<NoCache>>
    /\ abs_pos_cache = <<NoCache>>
    /\ pc = "infer"
    /\ err = ""
    /\ header = [state |-> "created", col_index |-> 1, levels |-> <<>>, yielded |-> 0]
    /\ infer_st = [contextual_offset |-> 0, pending |-> FALSE, merged |-> FALSE,
                   first_divergent |-> 0, carry_offset |-> 0, absorbed |-> 0,
                   skipped |-> 0, levels |-> <<>>, prev_levels |-> <<>>]
    /\ src_col = <<0>>
    /\ grid = <<>>
    /\ verify_st = <<>>
    /\ map_st = <<>>
    /\ output = [kind |-> "none"]

\* one next() of the read_header generator
ReadHeaderNext ==
    /\ pc = "infer"
    /\ ~infer_st.pending
    /\ LET col_index == IF header.state = "created" THEN 1 ELSE header.col_index + 1
           stop == /\ header.state = "suspended"
                   /\ \/ ~args.width.auto /\ col_index > args.width.n
                      \/ Len(header.levels) = 0
       IN  IF stop
             THEN \* StopIteration: infer returns SpreadsheetMapper.from_node(root_node)
                  /\ header' = [header EXCEPT !.state = "finished", !.col_index = col_index]
                  /\ pc' = "ready"
                  /\ UNCHANGED infer_st
             ELSE \E column \in ColumnsAt(col_index) :
                  /\ header' = [state |-> "suspended", col_index |-> col_index,
                                levels |-> collapse_levels(NonBlank(column)),
                                yielded |-> header.yielded + 1]
                  /\ infer_st' = [infer_st EXCEPT !.pending = TRUE]
                  /\ pc' = pc
    /\ UNCHANGED <<tree_vars, cache_vars, err, args, src_col, grid, verify_st,
                   map_st, output>>

\* the body of `for levels in header`
InferColumn ==
    /\ pc = "infer"
    /\ infer_st.pending
    /\ LET levels == header.levels
           configs == [i \in 1..Len(levels) |-> from_input_name(levels[i])]
           root_node == 1
           m == merge(root_node, configs, 1)
           k == Len(configs) - m.from + 1
           first_divergent == Len(config) + 1
           ctx == infer_st.contextual_offset + m.carry
           apply == ctx > 0 /\ m.carry = 0
           attached == [j \in 1..k |-> configs[m.from + j - 1]]
           ofst == (config \o attached)[last_in(AttachedChildren(m.at, k), root_node)].offset
       IN  IF Len(levels) = 0
             THEN /\ infer_st' = [infer_st EXCEPT !.pending = FALSE, !.merged = FALSE,
                                                  !.levels = levels,
                                                  !.prev_levels = infer_st.levels]
                  /\ UNCHANGED <<tree_vars, cache_vars, src_col, pc, err>>
           ELSE IF m.raises
             THEN /\ pc' = "error"
                  /\ err' = "IndexError"
                  /\ infer_st' = [infer_st EXCEPT !.pending = FALSE, !.merged = FALSE]
                  /\ UNCHANGED <<tree_vars, cache_vars, src_col>>
           ELSE IF ~m.attach
             THEN /\ infer_st' = [infer_st EXCEPT !.pending = FALSE, !.merged = TRUE,
                                                  !.contextual_offset = ctx,
                                                  !.first_divergent = 0,
                                                  !.carry_offset = m.carry,
                                                  !.absorbed = @ + 1,
                                                  !.skipped = infer_st.absorbed,
                                                  !.levels = levels,
                                                  !.prev_levels = infer_st.levels]
                  /\ UNCHANGED <<tree_vars, cache_vars, src_col, pc, err>>
           ELSE /\ config' = config \o
                       [j \in 1..k |->
                           IF j = 1 /\ apply /\ m.divergent
                             THEN [attached[j] EXCEPT
                                      !.offset = <<ofst[1], ofst[2] + ctx>>,
                                      !.overrides = @ \cup {"offset"}]
                             ELSE attached[j]]
                /\ parent' = AttachedParent(m.at, k)
                /\ children' = AttachedChildren(m.at, k)
                /\ column_pos_cache' = column_pos_cache \o [j \in 1..k |-> NoCache]
                /\ abs_pos_cache' = abs_pos_cache \o [j \in 1..k |-> NoCache]
                /\ src_col' = src_col \o [j \in 1..k |-> header.col_index]
                /\ infer_st' = [infer_st EXCEPT
                                   !.pending = FALSE, !.merged = TRUE,
                                   !.contextual_offset = IF apply THEN 0 ELSE ctx,
                                   !.first_divergent =
                                       IF m.divergent THEN first_divergent ELSE 0,
                                   !.carry_offset = m.carry,
                                   !.absorbed = 0,
                                   !.skipped = infer_st.absorbed,
                                   !.levels = levels,
                                   !.prev_levels = infer_st.levels]
                /\ UNCHANGED <<pc, err>>
    /\ UNCHANGED <<args, header, grid, verify_st, map_st, output>>


-----------------------------------------------------------------------------
(* Formatters *)

ColumnLetters ==
    <<"A", "B", "C", "D", "E", "F", "G", "H", "I", "J", "K", "L", "M",
      "N", "O", "P", "Q", "R", "S", "T", "U", "V", "W", "X", "Y", "Z">>

\* openpyxl.utils.get_column_letter, for the columns the model reaches
get_column_letter(col) == ColumnLetters[col]

RECURSIVE Join(_, _)
Join(sep, strs) ==
    IF Len(strs) = 0 THEN ""
    ELSE IF Len(strs) = 1 THEN strs[1]
    ELSE strs[1] \o sep \o Join(sep, Tail(strs))

qualified_name(n) == Join(".", str_path(n))

\* MapperNode.coordinate, as (column letter, row), from the position pos
coordinate(n, pos) ==
    IF is_root(n) THEN [col |-> "N/A", row |-> 0]
    ELSE [col |-> get_column_letter(pos[2]), row |-> pos[1]]

\* FlatFormatter.format: one line per leaf; evaluating the coordinates fills
\* the position caches
FlatFormat ==
    /\ pc \in {"ready", "build"}
    /\ LET nodes == get_leaves(1)
           cc == column_pos_cache
           ca == abs_pos_cache
       IN  IF \E i \in 1..Len(nodes) : abs_pos_raises(nodes[i], cc, ca)
             THEN /\ pc' = "error"
                  /\ err' = "RecursionError"
                  /\ UNCHANGED <<cache_vars, output>>
             ELSE /\ output' =
                       [kind |-> "flat",
                        lines |-> [i \in 1..Len(nodes) |->
                            [node |-> nodes[i],
                             coordinate |-> coordinate(nodes[i], abs_pos(nodes[i], cc, ca)),
                             qualified_name |-> qualified_name(nodes[i])]]]
                  /\ abs_pos_cache' = AbsCacheAfter(Range(nodes), cc, ca)
                  /\ column_pos_cache' = ColCacheAfter(Range(nodes), cc, ca)
                  /\ pc' = IF pc = "ready" THEN "done" ELSE "formatted"
                  /\ err' = err
    /\ UNCHANGED <<tree_vars, args, header, infer_st, src_col, grid, verify_st, map_st>>

RECURSIVE Reversed(_)
Reversed(seq) == IF Len(seq) = 0 THEN <<>> ELSE Append(Reversed(Tail(seq)), Head(seq))

IsNonLeaf(n) == ~is_leaf(n)

\* the first loop of TypescriptFormatter.format: aliases maps a qualified name
\* to the type name given to the node last seen under that qualified name
RECURSIVE TsAliases(_, _)
TsAliases(nodes, aliases) ==
    IF Len(nodes) = 0 THEN aliases
    ELSE LET node == Head(nodes)
             typename == class_name_from_str(config[node].raw_name)
             parent_alias == IF parent[node] # 0
                               THEN aliases[qualified_name(parent[node])]
                               ELSE "Root"
             alias == IF typename \notin {aliases[q] : q \in DOMAIN aliases}
                        THEN typename
                        ELSE parent_alias \o typename
         IN  TsAliases(Tail(nodes), (qualified_name(node) :> alias) @@ aliases)

\* the second loop: one `export type` block per non-leaf node, last node first
TsTypedefs(nodes, aliases) ==
    [i \in 1..Len(nodes) |->
        LET node == Reversed(nodes)[i]
        IN  [node |-> node,
             typename |-> aliases[qualified_name(node)],
             fields |-> [k \in 1..Len(children[node]) |->
                 LET child == children[node][k]
                 IN  [doc |-> IF "input_name" \in config[child].overrides
                                THEN config[child].input_name ELSE "",
                      name |-> config[child].output_name,
                      type |-> IF is_leaf(child) THEN "string"
                               ELSE aliases[qualified_name(child)]]]]]

TSFormat ==
    /\ pc = "ready"
    /\ LET nodes == SelectSeq(Preorder(1), IsNonLeaf)
       IN  output' = [kind |-> "ts", typedefs |-> TsTypedefs(nodes, TsAliases(nodes, <<>>))]
    /\ pc' = "done"
    /\ UNCHANGED <<tree_vars, cache_vars, err, args, header, infer_st, src_col, grid,
                   verify_st, map_st>>

\* InternalConfig._own_fields, in their order
own_fields == <<"offset", "input_name", "output_name", "optional", "skip">>

IsOverride(n, f) == f \in config[n].overrides

\* MapperFormatter._format: the class definition of a node, as the class
\* name, the assignments in its body and the nested class definitions
RECURSIVE MapperFormat_format(_, _)
MapperFormat_format(node, level) ==
    [name |-> class_name_from_str(config[node].raw_name),
     base |-> IF level = 0 THEN "SpreadsheetMapper" ELSE "",
     details |-> [f \in {g \in Range(own_fields) : IsOverride(node, g)} |->
                     CASE f = "offset" -> config[node].offset
                       [] f = "input_name" -> config[node].input_name
                       [] f = "output_name" -> config[node].output_name
                       [] f = "optional" -> config[node].optional
                       [] f = "skip" -> config[node].skip],
     pass |-> config[node].overrides = {} /\ Len(children[node]) = 0,
     classes |-> [i \in 1..Len(children[node]) |->
                     MapperFormat_format(children[node][i], level + 1)]]

MapperFormat ==
    /\ pc = "ready"
    /\ output' = [kind |-> "mapper", classdef |-> MapperFormat_format(1, 0)]
    /\ pc' = "rendered"
    /\ UNCHANGED <<tree_vars, cache_vars, err, args, header, infer_st, src_col, grid,
                   verify_st, map_st>>

Attr(classdef, f, default) ==
    IF f \in DOMAIN classdef.details THEN classdef.details[f] ELSE default

\* InternalConfig.from_config, on a class definition
from_config(classdef) ==
    InternalConfig(classdef.name,
                   Attr(classdef, "offset", <<0, 0>>),
                   Attr(classdef, "input_name", classdef.name),
                   Attr(classdef, "output_name", camel_to_snake(classdef.name)),
                   Attr(classdef, "optional", FALSE),
                   Attr(classdef, "optional", FALSE),
                   DOMAIN classdef.details)

\* cls.__dict__ after the class body ran: a class statement that binds a name
\* already bound replaces the value and keeps the name's place
RECURSIVE ClassDict(_, _)
ClassDict(classes, dict) ==
    IF Len(classes) = 0 THEN dict
    ELSE LET c == Head(classes)
         IN  ClassDict(Tail(classes),
                 IF \E i \in 1..Len(dict) : dict[i].name = c.name
                   THEN [i \in 1..Len(dict) |-> IF dict[i].name = c.name THEN c ELSE dict[i]]
                   ELSE Append(dict, c))

\* MapperNode.from_config and read_classdef: the tree a class definition builds
RECURSIVE read_classdef(_)
read_classdef(classdef) ==
    [config |-> from_config(classdef),
     children |-> [i \in 1..Len(ClassDict(classdef.classes, <<>>)) |->
                      read_classdef(ClassDict(classdef.classes, <<>>)[i])]]

\* SpreadsheetMapper.__new__ on the class the rendered definition declares
ReadClassdef ==
    /\ pc = "rendered"
    /\ output' = [kind |-> "rebuilt", classdef |-> output.classdef,
                  root |-> read_classdef(output.classdef)]
    /\ pc' = "done"
    /\ UNCHANGED <<tree_vars, cache_vars, err, args, header, infer_st, src_col, grid,
                   verify_st, map_st>>

Next ==
    \/ ReadHeaderNext
    \/ InferColumn
    \/ FlatFormat
    \/ TSFormat
    \/ MapperFormat
    \/ ReadClassdef

Spec == InferInit /\ [][Next]_vars


-----------------------------------------------------------------------------
(* A mapper built node by node: MapperNode.from_config and add_child, in   *)
(* the order read_classdef creates the nodes, then                         *)
(* SpreadsheetMapper.map_rows: _verify_augment and the row loop.           *)

\* the class definitions a node is made from
ClassDefs ==
    {[name |-> "Parent", details |-> <<>>],
     [name |-> "Parent", details |-> [optional |-> TRUE]],
     [name |-> "USBCTotal", details |-> [input_name |-> "USB-C Total"]],
     [name |-> "USBCTotal", details |-> [input_name |-> "USB-C Total", optional |-> TRUE]]}

\* what a data cell can hold
DataValues == {None, Str(" a b\nc ")}

\* the nodes a new node can go under while read_classdef walks the class:
\* the root, and the last child of such a node
RECURSIVE OpenNodes(_)
OpenNodes(n) ==
    {n} \cup (IF Len(children[n]) = 0 THEN {}
              ELSE OpenNodes(children[n][Len(children[n])]))

BuildInit ==
    /\ args = [height |-> 0, width |-> Auto, offset |-> <<0, 0>>, name |-> "Mapper",
               start_at |-> 0]
    /\ config = <<from_config([name |-> "Mapper", details |-> <<>>])>>
    /\ parent = <<0>>
    /\ children = << <<>> >>
    /\ column_pos_cache = <<NoCache>>
    /\ abs_pos_cache = <<NoCache>>
    /\ pc = "build"
    /\ err = ""
    /\ header = [state |-> "created", col_index |-> 1, levels |-> <<>>, yielded |-> 0]
    /\ infer_st = [contextual_offset |-> 0, pending |-> FALSE, merged |-> FALSE,
                   first_divergent |-> 0, carry_offset |-> 0, absorbed |-> 0,
                   skipped |-> 0, levels |-> <<>>, prev_levels |-> <<>>]
    /\ src_col = <<0>>
    /\ grid = <<>>
    /\ verify_st = <<>>
    /\ map_st = <<>>
    /\ output = [kind |-> "none"]

\* node = MapperNode.from_config(attr); parent.add_child(node)
AddChild ==
    /\ pc = "build"
    /\ Len(config) <= MaxNodes
    /\ \E p \in OpenNodes(1), classdef \in ClassDefs :
         /\ config' = Append(config, from_config(classdef))
         /\ parent' = Append(parent, p)
         /\ children' = Append([children EXCEPT ![p] = Append(@, Len(children) + 1)], <<>>)
    /\ column_pos_cache' = Append(column_pos_cache, NoCache)
    /\ abs_pos_cache' = Append(abs_pos_cache, NoCache)
    /\ src_col' = Append(src_col, 0)
    /\ UNCHANGED <<pc, err, args, header, infer_st, grid, verify_st, map_st, output>>

\* MapperNode.__iter__ is a generator: a frame is a generator that has been
\* started.  It yields its node ("self"), then takes the node's children as
\* they are at that moment and makes one generator for each ("chain"), which
\* it runs one after the other.
Frame(n) == [node |-> n, phase |-> "start", gens |-> <<>>]

Top(stack) == stack[Len(stack)]
Pop(stack) == SubSeq(stack, 1, Len(stack) - 1)
SetTop(stack, f) == [stack EXCEPT ![Len(stack)] = f]

\* one next() of the iterator: the node it yields and the frames left
RECURSIVE iter_next(_)
iter_next(stack) ==
    IF Len(stack) = 0 THEN [stop |-> TRUE, node |-> 0, stack |-> stack]
    ELSE LET f == Top(stack)
         IN  IF f.phase = "start"
               THEN [stop |-> FALSE, node |-> f.node,
                     stack |-> SetTop(stack, [f EXCEPT !.phase = "self"])]
             ELSE IF f.phase = "self"
               THEN iter_next(SetTop(stack, [f EXCEPT !.phase = "chain",
                                                      !.gens = children[f.node]]))
             ELSE IF Len(f.gens) = 0
               THEN iter_next(Pop(stack))
             ELSE iter_next(Append(SetTop(stack, [f EXCEPT !.gens = Tail(@)]),
                                   Frame(Head(f.gens))))

\* mapper.map_rows(ws, start_at) is started: _verify_augment begins
VerifyStart ==
    /\ pc \in {"build", "formatted", "ready"}
    /\ \E start_at \in IF pc = "ready" THEN {args.offset[1] + args.height + 1}
                       ELSE {2, MaxNodes + 1} :
          args' = [args EXCEPT !.start_at = start_at]
    /\ verify_st' = [stack |-> <<Frame(1)>>, clear_caches_flag |-> FALSE,
                     visited |-> <<>>, detached |-> {}, leaves0 |-> get_leaves(1),
                     parent0 |-> parent]
    /\ pc' = "verify"
    /\ UNCHANGED <<tree_vars, cache_vars, err, header, infer_st, src_col, grid,
                   map_st, output>>

\* the worksheet cell at pos holds v: a cell read before keeps its value
CellIs(pos, v) == pos \in DOMAIN grid => grid[pos] = v

\* one step of verify_st.visited
Visit(node, pos, actual, outcome) ==
    [node |-> node, pos |-> pos, actual |-> actual, outcome |-> outcome]

\* One iteration of `for node in tree` of _verify_augment; when the iterator
\* is exhausted, map_rows goes on: nodes = self.root.get_leaves() and
\* row_index = start_at.
VerifyNode ==
    /\ pc = "verify"
    /\ LET it == iter_next(verify_st.stack)
           node == it.node
           cc == IF verify_st.clear_caches_flag THEN clear_caches(column_pos_cache, node)
                 ELSE column_pos_cache
           ca == IF verify_st.clear_caches_flag THEN clear_caches(abs_pos_cache, node)
                 ELSE abs_pos_cache
           found == index_of(children[parent[node]], node)
       IN  IF it.stop
             THEN /\ pc' = "map"
                  /\ verify_st' = [verify_st EXCEPT !.stack = it.stack]
                  /\ map_st' = [nodes |-> get_leaves(1), row_index |-> args.start_at,
                                rows |-> <<>>, obj |-> <<>>, values |-> <<>>,
                                result |-> "none"]
                  /\ UNCHANGED <<tree_vars, cache_vars, err, grid>>
           ELSE IF is_root(node)
             THEN /\ verify_st' = [verify_st EXCEPT !.stack = it.stack,
                                     !.visited = Append(@, Visit(node, <<>>, None, "continue"))]
                  /\ UNCHANGED <<tree_vars, cache_vars, pc, err, grid, map_st>>
           ELSE IF abs_pos_raises(node, cc, ca)
             THEN /\ pc' = "error"
                  /\ err' = "RecursionError"
                  /\ verify_st' = [verify_st EXCEPT !.stack = it.stack,
                                     !.visited = Append(@, Visit(node, <<>>, None, "raise"))]
                  /\ column_pos_cache' = cc
                  /\ abs_pos_cache' = ca
                  /\ UNCHANGED <<tree_vars, grid, map_st>>
           ELSE LET pos == abs_pos(node, cc, ca)
                IN  \E v \in HeaderValues :
                      LET actual == normalize(v)
                          expected == Str(config[node].input_name)
                          outcome ==
                              IF expected = actual THEN "match"
                              ELSE IF config[node].optional
                                THEN (IF found.raises THEN "remove: RecursionError"
                                      ELSE IF found.idx < 0 THEN "remove: ValueError"
                                      ELSE "detach")
                              ELSE IF actual = None THEN "blank"
                              ELSE "mismatch"
                      IN  /\ CellIs(pos, v)
                          /\ grid' = (pos :> v) @@ grid
                          /\ column_pos_cache' = ColCacheAfter({node}, cc, ca)
                          /\ abs_pos_cache' = AbsCacheAfter({node}, cc, ca)
                          /\ verify_st' =
                               [stack |-> it.stack,
                                clear_caches_flag |->
                                    verify_st.clear_caches_flag \/ outcome = "detach",
                                visited |-> Append(verify_st.visited,
                                                   Visit(node, pos, actual, outcome)),
                                detached |-> IF outcome = "detach"
                                               THEN verify_st.detached \cup {node}
                                               ELSE verify_st.detached,
                                leaves0 |-> verify_st.leaves0,
                                parent0 |-> verify_st.parent0]
                          /\ IF outcome = "detach"
                               THEN /\ children' = [children EXCEPT ![parent[node]] =
                                                       list_remove(@, node)]
                                    /\ parent' = [parent EXCEPT ![node] = 0]
                               ELSE UNCHANGED <<children, parent>>
                          /\ IF outcome \in {"mismatch", "remove: ValueError"}
                               THEN pc' = "error" /\ err' = "ValueError"
                               ELSE IF outcome = "remove: RecursionError"
                               THEN pc' = "error" /\ err' = "RecursionError"
                               ELSE UNCHANGED <<pc, err>>
                          /\ UNCHANGED <<config, map_st>>
    /\ UNCHANGED <<config, args, header, infer_st, src_col, output>>

\* a dict held as a value of a dict
Dict(f) == [type |-> "dict", value |-> f]

\* the exception dict_path_set(receiver, path, value) raises, "" when none
RECURSIVE dict_path_raises(_, _)
dict_path_raises(receiver, path) ==
    IF Len(path) = 0 THEN "IndexError"
    ELSE IF Len(path) = 1 THEN ""
    ELSE IF Head(path) \notin DOMAIN receiver THEN ""
    ELSE IF receiver[Head(path)].type # "dict" THEN "TypeError"
    ELSE dict_path_raises(receiver[Head(path)].value, Tail(path))

\* the receiver after dict_path_set(receiver, path, value)
RECURSIVE dict_path_set(_, _, _)
dict_path_set(receiver, path, value) ==
    IF Len(path) = 1 THEN (Head(path) :> value) @@ receiver
    ELSE LET obj == IF Head(path) \in DOMAIN receiver THEN receiver[Head(path)].value
                    ELSE <<>>
         IN  (Head(path) :> Dict(dict_path_set(obj, Tail(path), value))) @@ receiver

\* the body of `for col_idx, node in enumerate(nodes)` from leaf i on, after
\* the cells were read: the record, and the exception and the leaf it is
\* raised at
RECURSIVE SetLeaves(_, _, _, _)
SetLeaves(obj, nodes, values, i) ==
    IF i > Len(nodes) THEN [raises |-> "", obj |-> obj, at |-> Len(nodes)]
    ELSE IF dict_path_raises(obj, str_path(nodes[i])) # ""
      THEN [raises |-> dict_path_raises(obj, str_path(nodes[i])), obj |-> obj, at |-> i]
    ELSE SetLeaves(dict_path_set(obj, str_path(nodes[i]), values[i]), nodes, values, i + 1)

\* the worksheet has MaxDataRows rows of data from start_at on
PastData(row) == row >= args.start_at + MaxDataRows

\* One iteration of `while True` of map_rows: the cells of the row are read
\* at the leaves' columns; a blank first cell ends the generator, otherwise
\* the record is filled leaf by leaf and yielded.
MapRow ==
    /\ pc = "map"
    /\ LET nodes == map_st.nodes
           row == map_st.row_index
           cc == column_pos_cache
           ca == abs_pos_cache
           raising == {i \in 1..Len(nodes) : column_pos_raises(nodes[i], cc, ca)}
           cols == {column_pos(nodes[i], cc, ca) : i \in (1..Len(nodes)) \ raising}
       IN  \E cells \in [cols -> DataValues \cup HeaderValues] :
             LET values == [i \in 1..Len(nodes) |->
                               IF i \in raising THEN None
                               ELSE normalize(cells[column_pos(nodes[i], cc, ca)])]
                 set == SetLeaves(<<>>, nodes, values, 1)
                 result == IF 1 \in raising THEN "RecursionError"
                           ELSE IF values[1] = None THEN "return"
                           ELSE IF \E i \in raising : i <= set.at THEN "RecursionError"
                           ELSE IF set.raises # "" THEN set.raises
                           ELSE "yield"
                 read == IF result \in {"return"} THEN {nodes[1]}
                         ELSE {nodes[i] : i \in 1..set.at}
             IN  /\ \A c \in cols :
                       /\ CellIs(<<row, c>>, cells[c])
                       /\ <<row, c>> \notin DOMAIN grid =>
                              /\ cells[c] \in DataValues
                              /\ PastData(row) => cells[c] = None
                 /\ column_pos_cache' = ColCacheAfterCol(read, cc, ca)
                 /\ abs_pos_cache' = AbsCacheAfterCol(read, cc, ca)
                 /\ map_st' = [map_st EXCEPT
                       !.result = result,
                       !.values = values,
                       !.obj = IF result = "yield" THEN set.obj ELSE @,
                       !.rows = IF result = "yield" THEN Append(@, row) ELSE @,
                       !.row_index = IF result = "yield" THEN row + 1 ELSE @]
                 /\ pc' = IF result = "yield" THEN "map"
                          ELSE IF result = "return" THEN "finished" ELSE "error"
                 /\ err' = IF result \in {"yield", "return"} THEN err ELSE result
    /\ UNCHANGED <<tree_vars, args, header, infer_st, src_col, grid, verify_st, output>>

\* infer on a given worksheet: the header block of the worksheet
HeaderBlock(height, offset) ==
    {<<level + offset[1], col + offset[2]>> : level \in 1..height, col \in 1..MaxGridWidth}

InferVerifyInit ==
    /\ \E height \in 1..MaxGridHeight, offset \in RootOffsets,
          width \in {Auto} \cup {Width(n) : n \in 1..MaxGridWidth} :
            /\ args = [height |-> height, width |-> width, offset |-> offset,
                       name |-> "Mapper", start_at |-> 0]
            /\ config = <<InternalConfig("Mapper", offset, "", "", FALSE, FALSE,
                                         IF offset # <<0, 0>> THEN {"offset"} ELSE {})>>
            /\ grid \in [HeaderBlock(height, offset) -> HeaderValues]
    /\ parent = <<0>>
    /\ children = << <<>> >>
    /\ column_pos_cache = <<NoCache>>
    /\ abs_pos_cache = <<NoCache>>
    /\ pc = "infer"
    /\ err = ""
    /\ header = [state |-> "created", col_index |-> 1, levels |-> <<>>, yielded |-> 0]
    /\ infer_st = [contextual_offset |-> 0, pending |-> FALSE, merged |-> FALSE,
                   first_divergent |-> 0, carry_offset |-> 0, absorbed |-> 0,
                   skipped |-> 0, levels |-> <<>>, prev_levels |-> <<>>]
    /\ src_col = <<0>>
    /\ verify_st = <<>>
    /\ map_st = <<>>
    /\ output = [kind |-> "none"]

\* infer(ws, ...) and then map_rows(ws, start_at) of the mapper it returns
NextInferVerify == ReadHeaderNext \/ InferColumn \/ VerifyStart \/ VerifyNode \/ MapRow

SpecInferVerify == InferVerifyInit /\ [][NextInferVerify]_vars

NextVerify == AddChild \/ FlatFormat \/ VerifyStart \/ VerifyNode \/ MapRow

SpecVerify == BuildInit /\ [][NextVerify]_vars

-----------------------------------------------------------------------------
(* Claims *)

\* the column a node stands in by the structure alone: its left sibling's
\* rightmost descendant's column + 1 + offset.col, or, for a first child,
\* its parent's column + offset.col
RECURSIVE StructCol(_)
StructCol(n) ==
    IF parent[n] = 0 THEN config[n].offset[2] + 1
    ELSE LET ch == children[parent[n]]
             i == CHOOSE j \in 1..Len(ch) : ch[j] = n
         IN  IF i > 1 THEN StructCol(last(ch[i - 1])) + 1 + config[n].offset[2]
             ELSE StructCol(parent[n]) + config[n].offset[2]

\* infer has just merged a column that diverged after k >= 1 absorbed columns
DivergedAfterCarry ==
    /\ pc # "error"
    /\ ~infer_st.pending
    /\ infer_st.merged
    /\ infer_st.carry_offset = 0
    /\ infer_st.first_divergent # 0
    /\ infer_st.skipped >= 1

\* C1: when k >= 1 consecutive columns were absorbed by merge and the next
\* column diverges, the first divergent node has offset.col = k, "offset" is in
\* its overrides, the accumulator is back at 0, and the node's recomputed
\* absolute column is the worksheet column its chain was read from.
C1_DivergentOffsetAndColumn ==
    DivergedAfterCarry =>
        LET fd == infer_st.first_divergent
        IN  /\ config[fd].offset[2] = infer_st.skipped
            /\ "offset" \in config[fd].overrides
            /\ infer_st.contextual_offset = 0
            /\ ~abs_pos_raises(fd, fresh(column_pos_cache), fresh(abs_pos_cache))
            /\ abs_pos(fd, fresh(column_pos_cache), fresh(abs_pos_cache))[2]
                 = src_col[fd] + args.offset[2]

\* C2: the leaves FlatFormatter lists have strictly increasing columns, and
\* each listed coordinate is the leaf's structural position.
C2_FlatLeavesIncreasing ==
    output.kind = "flat" =>
        /\ \A i, j \in 1..Len(output.lines) :
              i < j => column_pos(output.lines[i].node, column_pos_cache, abs_pos_cache)
                         < column_pos(output.lines[j].node, column_pos_cache, abs_pos_cache)
        /\ \A i \in 1..Len(output.lines) :
              ~is_root(output.lines[i].node) =>
                  output.lines[i].coordinate.col
                     = get_column_letter(StructCol(output.lines[i].node))

SameChain(levels_a, levels_b) ==
    /\ Len(levels_a) = Len(levels_b)
    /\ \A i \in 1..Len(levels_a) :
          ConfigEq(from_input_name(levels_a[i]), from_input_name(levels_b[i]))

\* C3: merging a chain whose configs equal, node by node, those of the chain
\* merged just before it returns carry 1 and leaves the tree as it was.
C3_IdenticalChainAbsorbed ==
    [][(/\ pc = "infer"
        /\ infer_st.pending
        /\ infer_st.merged
        /\ Len(header.levels) > 0
        /\ SameChain(header.levels, infer_st.levels))
       => (/\ pc' = "infer"
           /\ infer_st'.merged
           /\ infer_st'.carry_offset = 1
           /\ config' = config
           /\ parent' = parent
           /\ children' = children)]_vars

\* a chain of two labels was merged right after an equal chain, and absorbed
C3_Witness ==
    /\ pc = "infer"
    /\ ~infer_st.pending
    /\ infer_st.merged
    /\ Len(infer_st.levels) = 2
    /\ SameChain(infer_st.levels, infer_st.prev_levels)
    /\ infer_st.carry_offset = 1
    /\ Len(config) = 3


TsIndexOf(n) == CHOOSE i \in 1..Len(output.typedefs) : output.typedefs[i].node = n

\* C8: TypescriptFormatter gives distinct non-leaf nodes distinct type names,
\* emits exactly one block per non-leaf node, and emits the block of a non-leaf
\* child before the block of its parent.
C8_TsNamesDistinct ==
    output.kind = "ts" =>
        LET blocks == output.typedefs
            nonleaf == {n \in Nodes : ~is_leaf(n)}
        IN  /\ \A i, j \in 1..Len(blocks) :
                  i # j => blocks[i].typename # blocks[j].typename
            /\ Len(blocks) = Cardinality(nonleaf)
            /\ {blocks[i].node : i \in 1..Len(blocks)} = nonleaf
            /\ \A n \in nonleaf : \A k \in 1..Len(children[n]) :
                  ~is_leaf(children[n][k]) => TsIndexOf(children[n][k]) < TsIndexOf(n)

\* a tree as a value: what the round trip compares
RECURSIVE TreeOf(_)
TreeOf(n) ==
    [config |-> config[n],
     children |-> [i \in 1..Len(children[n]) |-> TreeOf(children[n][i])]]

RECURSIVE Compared(_)
Compared(t) ==
    [raw_name |-> t.config.raw_name, input_name |-> t.config.input_name,
     output_name |-> t.config.output_name, offset |-> t.config.offset,
     children |-> [i \in 1..Len(t.children) |-> Compared(t.children[i])]]

\* C9: the tree rebuilt from MapperFormatter's definition has the shape of
\* the tree that was rendered and the same raw_name, input_name, output_name
\* and offset at every node, the root included.
C9_MapperRoundTrip ==
    output.kind = "rebuilt" => Compared(output.root) = Compared(TreeOf(1))

\* the part of the round trip below the root: the children of the rebuilt
\* root against the children of the rendered root
RoundTripBelowRoot ==
    output.kind = "rebuilt" =>
        Compared(output.root).children = Compared(TreeOf(1)).children


-----------------------------------------------------------------------------
(* Claims on verification and row mapping *)

\* node x was visited below a node that verification had already detached
BelowDetached(i) ==
    \E j \in 1..(i - 1) :
        /\ verify_st.visited[j].outcome = "detach"
        /\ verify_st.visited[j].node # verify_st.visited[i].node
        /\ verify_st.visited[j].node \in Range(get_path(verify_st.visited[i].node))

\* C4: once an optional node is detached, none of its descendants is read
\* against the grid, detached, or raises the mismatch error: every node the
\* verification reads lies below no node detached before.
C4_DetachedSubtreeDiscarded ==
    verify_st # <<>> =>
        \A i \in 1..Len(verify_st.visited) :
            verify_st.visited[i].outcome # "continue" => ~BelowDetached(i)

\* C5: the mismatch error is raised, with no record yielded, exactly at a
\* visited node that remains in the tree, is not optional, and whose cell is
\* neither blank nor its input_name; a blank cell of a non-optional node
\* is passed over.
C5_MismatchRaisedExactly ==
    verify_st # <<>> =>
        \A i \in 1..Len(verify_st.visited) :
            LET v == verify_st.visited[i]
            IN  /\ v.outcome = "mismatch" <=>
                      /\ v.outcome # "continue"
                      /\ ~BelowDetached(i)
                      /\ ~config[v.node].optional
                      /\ v.actual # None
                      /\ v.actual # Str(config[v.node].input_name)
                /\ v.outcome = "mismatch" => pc = "error" /\ map_st = <<>>
                /\ (v.outcome # "continue" /\ ~config[v.node].optional /\ v.actual = None)
                       => v.outcome = "blank"

\* C6: map_rows started at row s yields one record for each of the rows
\* s, s+1, ... in increasing order, ends at the first row whose first leaf
\* cell is blank, yielding nothing for it, and raises nothing; a row whose
\* first leaf cell is not blank is yielded.
C6_RowsUntilFirstBlank ==
    pc \in {"map", "finished", "error"} /\ map_st # <<>> =>
        /\ \A k \in 1..Len(map_st.rows) : map_st.rows[k] = args.start_at + k - 1
        /\ map_st.row_index = args.start_at + Len(map_st.rows)
        /\ map_st.result = "return" => map_st.values[1] = None /\ pc = "finished"
        /\ map_st.result \in {"none", "yield", "return"}
        /\ pc # "error"

\* the value a record holds at a path of keys, Missing when there is none
Missing == [type |-> "missing", value |-> ""]

RECURSIVE Lookup(_, _)
Lookup(obj, path) ==
    IF Len(path) = 0 THEN Dict(obj)
    ELSE IF Head(path) \notin DOMAIN obj THEN Missing
    ELSE IF Len(path) = 1 THEN obj[Head(path)]
    ELSE IF obj[Head(path)].type # "dict" THEN Missing
    ELSE Lookup(obj[Head(path)].value, Tail(path))

\* C7: a yielded record holds, for every leaf, at the path of the
\* output_name keys from below the root down to the leaf, the normalized
\* cell of the row at the leaf's column_pos.
C7_RecordHoldsEveryLeaf ==
    pc \in {"map", "finished", "error"} /\ map_st # <<>> /\ map_st.result = "yield" =>
        \A i \in 1..Len(map_st.nodes) :
            Lookup(map_st.obj, str_path(map_st.nodes[i])) = map_st.values[i]

\* how many times node m is listed in the children lists
Listed(m) == {<<n, i>> \in Nodes \X (1..Len(config)) : i <= Len(children[n]) /\ children[n][i] = m}

\* C10: every node listed in a children list has the listing node as its
\* parent and is listed once, no node is its own ancestor, and a node that
\* verification detached is in no children list.
C10_TreeWellFormed ==
    /\ \A m \in Nodes : Cardinality(Listed(m)) <= 1
    /\ \A m \in Nodes : \A l \in Listed(m) : parent[m] = l[1]
    /\ \A m \in Nodes : parent[m] # 0 => parent[m] < m
    /\ verify_st # <<>> =>
           \A d \in verify_st.detached : Listed(d) = {}

-----------------------------------------------------------------------------
(* Claims on merge, read_header and the carry of infer *)

\* merge(root_node, chain) for the chain of the labels levels
MergeOf(levels) == merge(1, [i \in 1..Len(levels) |-> from_input_name(levels[i])], 1)

\* C11: when the recursion of merge ends at a receiver that has no children,
\* the rest of the chain becomes the receiver's only subtree, and merge
\* returns no divergent node and carry 0.
C11_ChildlessReceiverAttaches ==
    [][(/\ pc = "infer"
        /\ infer_st.pending
        /\ Len(header.levels) > 0
        /\ Len(children[MergeOf(header.levels).at]) = 0)
       => (/\ pc' = "infer"
           /\ children'[MergeOf(header.levels).at] = <<Len(config) + 1>>
           /\ parent'[Len(config) + 1] = MergeOf(header.levels).at
           /\ Len(config') = Len(config) + Len(header.levels)
                                - MergeOf(header.levels).from + 1
           /\ infer_st'.first_divergent = 0
           /\ infer_st'.carry_offset = 0)]_vars

\* C12: read_header yields the lists of columns 1, 2, ... in order; with an
\* explicit width W it ends after exactly W lists, with width "auto" it ends
\* after the first empty list.
C12_ReadHeaderWidth ==
    /\ header.state = "suspended" => header.col_index = header.yielded
    /\ header.state = "finished" =>
           IF args.width.auto THEN Len(header.levels) = 0
           ELSE header.yielded = args.width.n

\* C13: a column with an empty label list adds one to the carry infer
\* accumulates.
C13_BlankColumnCarries ==
    [][(/\ pc = "infer"
        /\ infer_st.pending
        /\ Len(header.levels) = 0)
       => infer_st'.contextual_offset = infer_st.contextual_offset + 1]_vars

-----------------------------------------------------------------------------
(* Claims on the caches and the leaves after verification *)

\* the node the next iteration of _verify_augment visits (0: none is left)
NextVisited == IF iter_next(verify_st.stack).stop THEN 0 ELSE iter_next(verify_st.stack).node

\* n.abs_pos computed with nothing cached, <<>> when that raises
FreshAbsPos(n) ==
    IF abs_pos_raises(n, fresh(column_pos_cache), fresh(abs_pos_cache)) THEN <<>>
    ELSE abs_pos(n, fresh(column_pos_cache), fresh(abs_pos_cache))

FreshColumnPos(n) ==
    IF column_pos_raises(n, fresh(column_pos_cache), fresh(abs_pos_cache)) THEN <<>>
    ELSE <<column_pos(n, fresh(column_pos_cache), fresh(abs_pos_cache))>>

\* after a detach, the node visited next is read at its position in the
\* tree as it is now
ReadAtFreshPosition ==
    (/\ pc = "verify"
     /\ verify_st.clear_caches_flag
     /\ NextVisited # 0
     /\ ~is_root(NextVisited))
    => verify_st'.visited[Len(verify_st'.visited)].pos = FreshAbsPos(NextVisited)

\* verification has just ended and every node of the tree has, in each
\* cache, nothing or the position a fresh computation gives
CachesFreshAtEnd ==
    (pc = "map" /\ map_st.result = "none") =>
        \A n \in Range(Preorder(1)) :
            /\ column_pos_cache[n] \in {NoCache, FreshColumnPos(n)}
            /\ abs_pos_cache[n] \in {NoCache, FreshAbsPos(n)}

\* C14: whatever was cached before verification, after a detach each node
\* visited later is compared with the cell at the position computed from the
\* tree as it is after the detach, and when verification ends the cached
\* positions of the nodes of the tree are those of a fresh computation.
C14_CachesFreshAfterDetach ==
    [][ReadAtFreshPosition]_vars /\ []CachesFreshAtEnd

\* no two children of one node had equal configs when verification started
DistinctSiblings ==
    \A a, b \in Nodes :
        (a # b /\ verify_st.parent0[a] # 0 /\ verify_st.parent0[a] = verify_st.parent0[b])
            => ~ConfigEq(config[a], config[b])

\* the node is not below a node detached so far
Remains(n) == \A d \in verify_st.detached : d = n \/ d \notin Range(get_path(n))

\* the same, for trees whose sibling configs differ, and for the nodes that
\* are not below a detached node
CachesFreshDistinctSiblings ==
    /\ [][(pc = "verify" /\ DistinctSiblings /\ NextVisited # 0 /\ Remains(NextVisited))
             => ReadAtFreshPosition]_vars
    /\ [](pc = "map" /\ DistinctSiblings => CachesFreshAtEnd)

\* C16: the nodes map_rows reads data from were leaves of the tree before
\* verification, and the root is not one of them.
C16_OnlyOriginalLeavesMapped ==
    (pc \in {"map", "finished", "error"} /\ map_st # <<>>) =>
        \A i \in 1..Len(map_st.nodes) :
            /\ map_st.nodes[i] \in Range(verify_st.leaves0)
            /\ ~is_root(map_st.nodes[i])

-----------------------------------------------------------------------------
(* Claims on verifying an inferred tree *)

\* C15: verifying the tree infer returned against the worksheet it was
\* inferred from raises no mismatch error and detaches no node.
C15_InferredTreeVerifies ==
    verify_st # <<>> =>
        \A i \in 1..Len(verify_st.visited) :
            verify_st.visited[i].outcome \notin {"mismatch", "detach"}

\* verification of an inferred tree reads header cells of the worksheet only
VerifyReadsHeaderBlock ==
    verify_st # <<>> =>
        \A i \in 1..Len(verify_st.visited) :
            verify_st.visited[i].outcome # "continue" =>
                verify_st.visited[i].pos \in HeaderBlock(args.height, args.offset)

====
